---- MODULE Spec2Model ----
(***************************************************************************)
(* Blog front end: reconciliation of the remote post listing with the      *)
(* browser-local fallback cache, the create form's fallback writer and the *)
(* detail page's deletion path.                                            *)
(*                                                                         *)
(* Strings that the code inspects are modelled by what the code reads of   *)
(* them:                                                                   *)
(*   - an identifier is a tuple <<prefix, rest...>>; "42" is <<"", 42>>    *)
(*     and `local_${Date.now()}_${random}` is <<"local_", now, random>>;   *)
(*   - an ISO-8601 timestamp is <<hours, offset>>: the wall-clock reading  *)
(*     and its UTC offset; new Date(s).getTime() is hours - offset, so two *)
(*     different strings can denote the same instant;                      *)
(*   - an error message is the tuple of its words.                         *)
(***************************************************************************)
EXTENDS Integers, Sequences, FiniteSets, TLC

VARIABLES
    storage,            \* localStorage['blog_posts'], parsed: a sequence of LocalPost
    server,             \* the remote service's posts, in the order it lists them
    nextServerId,       \* the next identifier the remote service assigns
    now,                \* the clock behind Date.now() and the service's timestamps
    page,               \* the route shown: "list" (/) or "detail" (/posts/[id])
    postId,             \* PostDetail's postId prop
    qStatus,            \* ['GetPosts'] query: "pending", "success" or "error"
    qFetching,          \* ['GetPosts'] query: a request is in flight
    qData,              \* ['GetPosts'] query: the last successfully fetched listing
    localPosts,         \* PostList's localPosts state
    createPc,           \* where the create mutation and its callbacks stand
    createVars,         \* the variables of the create mutation in flight
    createResult,       \* what the create settled with: the post, or the error
    mutationError,      \* createMutation.error
    showSuccessMessage, \* PostForm's showSuccessMessage state
    hcsPc,              \* where PostList.handleCreateSuccess stands
    navPending,         \* a router.push that has not yet replaced the page
    dStatus,            \* ['GetPost', {id}] query: "pending", "success" or "error"
    dData,              \* ['GetPost', {id}] query: data?.post
    detailLocalPost,    \* PostDetail's localPost state
    delPc,              \* where the delete mutation stands
    delLog,             \* history: what the delete operation has done, in order
    rendered,           \* what PostList last rendered
    lastOp,             \* history: the last call of the storage specification
    createLog,          \* history: what the create operation has done, in order
    attempts,           \* requests sent for the operation under way, per kind
    tasks,              \* the storage calls of the open tabs' callbacks
    done,               \* history: the tasks that have run, in order of completion
    form                \* PostForm's fields, tag list and tag input

vars ==
    << storage, server, nextServerId, now, page, postId, qStatus, qFetching, qData,
       localPosts, createPc, createVars, createResult, mutationError,
       showSuccessMessage, hcsPc, navPending, dStatus, dData, detailLocalPost,
       delPc, delLog, rendered, lastOp, createLog, attempts, tasks, done, form >>

\* ------------------------------------------------------------------------
\* Bounds of the model
\* ------------------------------------------------------------------------

\* Longest remote listing drawn for the reconciler's own specification.
MaxRemote == 2

\* Longest local collection drawn for the reconciler's and the storage
\* specifications.
MaxLocal == 2

\* ------------------------------------------------------------------------
\* Data
\* ------------------------------------------------------------------------

\* An optional value (undefined, null): the empty tuple, or the value wrapped.
None == << >>

Some(v) == << v >>

LOCAL_PREFIX == "local_"

\* postId.startsWith('local_')
StartsWithLocal(id) == id[1] = LOCAL_PREFIX

\* new Date(publishedAt).getTime() of a well-formed ISO-8601 string
GetTime(publishedAt) == publishedAt[1] - publishedAt[2]

\* new Date(...).toISOString(): always rendered in UTC
ToISOString(t) == <<t, 0>>

\* The fixed author list of the create form.
AUTHORS ==
    << [id |-> "1", name |-> "Takahashi"],
       [id |-> "2", name |-> "Sato"],
       [id |-> "3", name |-> "Suzuki"],
       [id |-> "4", name |-> "Ito"],
       [id |-> "5", name |-> "Kato"] >>

Range(s) == { s[i] : i \in 1..Len(s) }

IdsOf(s) == { s[i].id : i \in 1..Len(s) }

\* Array.prototype.findIndex on the id; 0 stands for -1 (arrays are 1-based here).
FindIndex(posts, id) ==
    IF \E i \in 1..Len(posts) : posts[i].id = id
    THEN CHOOSE i \in 1..Len(posts) :
            /\ posts[i].id = id
            /\ \A j \in 1..(i - 1) : posts[j].id # id
    ELSE 0

\* ------------------------------------------------------------------------
\* lib/local-storage.ts, on a stored value that parses to an array of posts
\* ------------------------------------------------------------------------

\* A save that always appends: the upsert's lookup left out.
SaveAlwaysPush(stored, post) == Append(stored, post)

\* saveLocalPost: replace the first entry with the id, or push.
SaveLocalPostFn(stored, post) ==
    LET index == FindIndex(stored, post.id)
    IN  IF index > 0
        THEN [stored EXCEPT ![index] = post]
        ELSE Append(stored, post)

\* A delete that filters nothing.
DeleteNothing(stored, id) == stored

\* deleteLocalPost: posts.filter((p) => p.id !== id)
DeleteLocalPostFn(stored, id) ==
    SelectSeq(stored, LAMBDA p : p.id # id)

\* getLocalPost: posts.find((p) => p.id === id) || null
GetLocalPostFn(stored, id) ==
    LET index == FindIndex(stored, id)
    IN  IF index > 0 THEN Some(stored[index]) ELSE None

\* ------------------------------------------------------------------------
\* components/PostList.tsx: the merge on render
\* ------------------------------------------------------------------------

\* data?.posts || []
ServerPosts(data) == IF data = None THEN << >> ELSE data[1]

\* The list shape of a LocalPost: id, title, publishedAt, author.name.
ConvertLocalPost(localPost) ==
    [ id          |-> localPost.id,
      title       |-> localPost.title,
      publishedAt |-> localPost.publishedAt,
      author      |-> [name |-> localPost.author.name] ]

ConvertedLocalPosts(locals) ==
    [ i \in 1..Len(locals) |-> ConvertLocalPost(locals[i]) ]

\* A concatenation that puts the local entries first.
AllPostsLocalFirst(data, locals) ==
    ConvertedLocalPosts(locals) \o ServerPosts(data)

\* [...serverPosts, ...convertedLocalPosts]
AllPosts(data, locals) ==
    ServerPosts(data) \o ConvertedLocalPosts(locals)

\* allPosts.reduce(...): keep the first occurrence of every id.
RECURSIVE UniquePosts(_)
UniquePosts(all) ==
    IF all = << >> THEN << >>
    ELSE LET acc  == UniquePosts(SubSeq(all, 1, Len(all) - 1))
             post == all[Len(all)]
         IN  IF \E i \in 1..Len(acc) : acc[i].id = post.id
             THEN acc
             ELSE Append(acc, post)

\* A comparator with its operands exchanged: dateA - dateB.
CompareAscending(a, b) == GetTime(a.publishedAt) - GetTime(b.publishedAt)

\* The comparator: dateB - dateA.
Compare(a, b) == GetTime(b.publishedAt) - GetTime(a.publishedAt)

\* Insert x behind every entry that does not sort after it.
RECURSIVE InsertSorted(_, _)
InsertSorted(sorted, x) ==
    IF sorted = << >> THEN << x >>
    ELSE LET last == sorted[Len(sorted)]
         IN  IF Compare(last, x) <= 0
             THEN Append(sorted, x)
             ELSE Append(InsertSorted(SubSeq(sorted, 1, Len(sorted) - 1), x), last)

\* uniquePosts.slice().sort(...): Array.prototype.sort is stable.
RECURSIVE SortByDateDesc(_)
SortByDateDesc(unique) ==
    IF unique = << >> THEN << >>
    ELSE InsertSorted(SortByDateDesc(SubSeq(unique, 1, Len(unique) - 1)),
                      unique[Len(unique)])

\* The list PostList renders once it is past the loading state.
MergedPosts(data, locals) ==
    SortByDateDesc(UniquePosts(AllPosts(data, locals)))

\* A loading flag that is up during every fetch.
IsFetching(status, fetching) == fetching

\* useQuery's isLoading: the first fetch of a query that holds no data.
IsLoading(status, fetching) == fetching /\ status = "pending"

\* A render with a branch for the query's error.
PostListRenderWithError(pg, status, fetching, data, locals) ==
    IF pg # "list" THEN [view |-> "unmounted", posts |-> << >>]
    ELSE IF IsLoading(status, fetching) THEN [view |-> "loading", posts |-> << >>]
    ELSE IF status = "error" THEN [view |-> "error", posts |-> << >>]
    ELSE LET posts == MergedPosts(data, locals)
         IN  [ view  |-> IF Len(posts) = 0 THEN "no posts" ELSE "posts",
               posts |-> posts ]

\* PostList's render: the spinner while loading, else the merged list (the
\* "no posts" text when it is empty). No branch renders the query's error.
PostListRender(pg, status, fetching, data, locals) ==
    IF pg # "list" THEN [view |-> "unmounted", posts |-> << >>]
    ELSE IF IsLoading(status, fetching) THEN [view |-> "loading", posts |-> << >>]
    ELSE LET posts == MergedPosts(data, locals)
         IN  [ view  |-> IF Len(posts) = 0 THEN "no posts" ELSE "posts",
               posts |-> posts ]

\* ------------------------------------------------------------------------
\* Sample data
\* ------------------------------------------------------------------------

\* "1", "2" and "local_999".
SampleServerIds == { <<"", 1>>, <<"", 2>> }

SampleIds == SampleServerIds \cup { <<LOCAL_PREFIX, 999>> }

\* Title, timestamp and author name. <<1, 0>> and <<2, 1>> are two renderings
\* of one instant; <<6, 0>> is later.
SampleFields ==
    { [title |-> "A", publishedAt |-> <<1, 0>>, name |-> "Takahashi"],
      [title |-> "B", publishedAt |-> <<2, 1>>, name |-> "Sato"],
      [title |-> "B", publishedAt |-> <<6, 0>>, name |-> "Sato"] }

SummaryPost(id, f) ==
    [ id |-> id, title |-> f.title, publishedAt |-> f.publishedAt,
      author |-> [name |-> f.name] ]

FullPost(id, f) ==
    [ id |-> id, title |-> f.title, body |-> "text", tags |-> << >>,
      publishedAt |-> f.publishedAt,
      author |-> [id |-> "1", name |-> f.name, avatarUrl |-> None] ]

SampleRemotePosts == { SummaryPost(id, f) : id \in SampleServerIds, f \in SampleFields }

SampleLocalPosts == { FullPost(id, f) : id \in SampleIds, f \in SampleFields }

SeqsUpTo(S, n) == UNION { [1..k -> S] : k \in 0..n }

\* ------------------------------------------------------------------------
\* What the specifications of single functions leave alone
\* ------------------------------------------------------------------------

NoOp == [op |-> "none", before |-> << >>, post |-> << >>, id |-> << >>]

Unmounted == [view |-> "unmounted", posts |-> << >>]

AppIdle ==
    /\ server = << >> /\ nextServerId = 1 /\ now = 1
    /\ page = "none" /\ postId = None
    /\ qStatus = "pending" /\ qFetching = FALSE
    /\ createPc = "idle" /\ createVars = None /\ createResult = None
    /\ mutationError = None /\ showSuccessMessage = FALSE
    /\ hcsPc = "idle" /\ navPending = None
    /\ dStatus = "pending" /\ dData = None /\ detailLocalPost = None
    /\ delPc = "idle" /\ delLog = [id |-> << >>, before |-> << >>, events |-> << >>]
    /\ createLog = << >>
    /\ attempts = [list |-> 0, post |-> 0, create |-> 0, delete |-> 0]

appVars ==
    << server, nextServerId, now, page, postId, qStatus, qFetching,
       createPc, createVars, createResult, mutationError, showSuccessMessage,
       hcsPc, navPending, dStatus, dData, detailLocalPost, delPc, delLog,
       createLog, attempts >>

\* No tab is running a storage call of the tabs' specification.
NoTasks == tasks = << >> /\ done = << >>

\* The fields of the create form are not looked at.
NoForm == << >>

tabVars == << tasks, done >>

\* What every specification but the form's leaves alone.
restVars == << tasks, done, form >>

\* ------------------------------------------------------------------------
\* The reconciler alone: PostList's merge on every remote and local collection
\* ------------------------------------------------------------------------

InitMerge ==
    /\ AppIdle
    /\ storage = << >> /\ lastOp = NoOp /\ NoTasks /\ form = NoForm
    /\ qData \in { None } \cup { Some(r) : r \in SeqsUpTo(SampleRemotePosts, MaxRemote) }
    /\ localPosts \in SeqsUpTo(SampleLocalPosts, MaxLocal)
    /\ rendered = Unmounted

\* PostList renders with the query settled.
RenderList ==
    /\ rendered = Unmounted
    /\ rendered' = PostListRender("list", "success", FALSE, qData, localPosts)
    /\ UNCHANGED << appVars, restVars, storage, lastOp, qData, localPosts >>

NextMerge == RenderList

SpecMerge == InitMerge /\ [][NextMerge]_vars

\* ------------------------------------------------------------------------
\* The storage functions alone, on every stored collection
\* ------------------------------------------------------------------------

InitStore ==
    /\ AppIdle
    /\ storage \in SeqsUpTo(SampleLocalPosts, MaxLocal)
    /\ lastOp = NoOp /\ NoTasks /\ form = NoForm
    /\ qData = None /\ localPosts = << >> /\ rendered = Unmounted

CallSaveLocalPost(post) ==
    /\ Len(storage) <= MaxLocal
    /\ storage' = SaveLocalPostFn(storage, post)
    /\ lastOp' = [op |-> "save", before |-> storage, post |-> Some(post), id |-> post.id]
    /\ UNCHANGED << appVars, restVars, qData, localPosts, rendered >>

CallDeleteLocalPost(id) ==
    /\ storage' = DeleteLocalPostFn(storage, id)
    /\ lastOp' = [op |-> "delete", before |-> storage, post |-> None, id |-> id]
    /\ UNCHANGED << appVars, restVars, qData, localPosts, rendered >>

NextStore ==
    \/ \E post \in SampleLocalPosts : CallSaveLocalPost(post)
    \/ \E id \in SampleIds : CallDeleteLocalPost(id)

SpecStore == InitStore /\ [][NextStore]_vars

\* ------------------------------------------------------------------------
\* lib/local-storage.ts on whatever the storage key holds
\* ------------------------------------------------------------------------

\* JavaScript values the storage functions meet, tagged by their kind: null,
\* a value that is neither null nor an array (an object, a number, a string,
\* a boolean), an array, a post, undefined.
JsNull == [t |-> "null"]

JsScalar == [t |-> "scalar"]

JsUndefined == [t |-> "undefined"]

JsArray(items) == [t |-> "array", items |-> items]

JsPost(post) == [t |-> "post", post |-> post]

\* What localStorage.getItem(STORAGE_KEY) returns: null for a missing key, or
\* the stored string, told apart by what `!stored` and JSON.parse make of it.
ItemAbsent == [kind |-> "absent"]

ItemEmpty == [kind |-> "empty"]

ItemUnparseable == [kind |-> "unparseable"]

ItemJson(value) == [kind |-> "json", value |-> value]

\* JSON.stringify(posts) of an array, as the item that parses back to it.
Stringify(items) == ItemJson(JsArray(items))

\* How the browser's storage answers: it works, setItem throws (the quota
\* is exceeded), or every access throws (storage is denied).
StorageFailures == { "none", "quota", "denied" }

\* The item parses to an array whose elements are all posts.
IsArrayOfPosts(item) ==
    /\ item.kind = "json"
    /\ item.value.t = "array"
    /\ \A i \in 1..Len(item.value.items) : item.value.items[i] # JsNull

\* getLocalPosts: [] when getItem throws, the key is missing, the string is
\* empty or JSON.parse throws; else whatever JSON.parse returns.
GetLocalPostsRaw(item, failure) ==
    IF failure = "denied" THEN JsArray(<< >>)
    ELSE IF item.kind \in { "absent", "empty", "unparseable" } THEN JsArray(<< >>)
    ELSE item.value

\* The first element a callback `(p) => p.id === id` is true of; 0 for none.
\* The callback is not called past that element.
MatchAt(items, id) ==
    LET hits == { i \in 1..Len(items) : items[i] # JsNull /\ items[i].id = id }
    IN  IF hits = { } THEN 0 ELSE CHOOSE i \in hits : \A j \in hits : i <= j

\* The first null element; 0 for none. Reading p.id of it throws a TypeError.
NullAt(items) ==
    LET nulls == { i \in 1..Len(items) : items[i] = JsNull }
    IN  IF nulls = { } THEN 0 ELSE CHOOSE i \in nulls : \A j \in nulls : i <= j

\* posts.find / posts.findIndex throws: posts has no such method, or the
\* callback reaches a null element before it finds the id.
FindThrows(posts, id) ==
    \/ posts.t # "array"
    \/ /\ NullAt(posts.items) > 0
       /\ \/ MatchAt(posts.items, id) = 0
          \/ NullAt(posts.items) < MatchAt(posts.items, id)

\* posts.filter throws: posts has no such method, or some element is null.
FilterThrows(posts) ==
    \/ posts.t # "array"
    \/ NullAt(posts.items) > 0

\* getLocalPost: no try/catch of its own around posts.find.
GetLocalPostRaw(item, failure, id) ==
    LET posts == GetLocalPostsRaw(item, failure)
    IN  IF FindThrows(posts, id)
        THEN [threw |-> TRUE, value |-> JsUndefined, item |-> item]
        ELSE [threw |-> FALSE,
              value |-> IF MatchAt(posts.items, id) > 0
                        THEN JsPost(posts.items[MatchAt(posts.items, id)])
                        ELSE JsNull,
              item  |-> item]

\* saveLocalPost: whatever its try block throws is caught and logged.
SaveLocalPostRaw(item, failure, post) ==
    LET posts == GetLocalPostsRaw(item, failure)
    IN  [threw |-> FALSE, value |-> JsUndefined,
         item  |-> IF FindThrows(posts, post.id) \/ failure # "none"
                   THEN item
                   ELSE IF MatchAt(posts.items, post.id) > 0
                        THEN Stringify([posts.items EXCEPT ![MatchAt(posts.items, post.id)] = post])
                        ELSE Stringify(SaveLocalPostFn(posts.items, post))]

\* deleteLocalPost: whatever its try block throws is caught and logged.
DeleteLocalPostRaw(item, failure, id) ==
    LET posts == GetLocalPostsRaw(item, failure)
    IN  [threw |-> FALSE, value |-> JsUndefined,
         item  |-> IF FilterThrows(posts) \/ failure # "none"
                   THEN item
                   ELSE Stringify(DeleteLocalPostFn(posts.items, id))]

\* One post per sample identifier, and the elements a stored array is made of.
RawSamplePosts ==
    { FullPost(id, [title |-> "A", publishedAt |-> <<1, 0>>, name |-> "Takahashi"]) :
          id \in SampleIds }

RawSampleItems ==
    { ItemAbsent, ItemEmpty, ItemUnparseable, ItemJson(JsNull), ItemJson(JsScalar) }
        \cup { Stringify(items) : items \in SeqsUpTo(RawSamplePosts \cup { JsNull }, MaxLocal) }

NoRawOp ==
    [op |-> "none", before |-> ItemAbsent, failure |-> "none", id |-> << >>,
     threw |-> FALSE, value |-> JsUndefined]

InitRaw ==
    /\ AppIdle /\ NoTasks /\ form = NoForm
    /\ storage \in RawSampleItems
    /\ lastOp = NoRawOp
    /\ qData = None /\ localPosts = << >> /\ rendered = Unmounted

\* The outcome of a call recorded, the item it leaves stored.
RawCall(op, failure, id, out) ==
    /\ storage' = out.item
    /\ lastOp' = [op |-> op, before |-> storage, failure |-> failure, id |-> id,
                  threw |-> out.threw, value |-> out.value]
    /\ UNCHANGED << appVars, restVars, qData, localPosts, rendered >>

CallGetLocalPostsRaw(failure) ==
    RawCall("getAll", failure, << >>,
            [threw |-> FALSE, value |-> GetLocalPostsRaw(storage, failure), item |-> storage])

CallGetLocalPostRaw(failure, id) ==
    RawCall("getOne", failure, id, GetLocalPostRaw(storage, failure, id))

CallSaveLocalPostRaw(failure, post) ==
    /\ storage.kind = "json" /\ storage.value.t = "array"
           => Len(storage.value.items) <= MaxLocal
    /\ RawCall("save", failure, post.id, SaveLocalPostRaw(storage, failure, post))

CallDeleteLocalPostRaw(failure, id) ==
    RawCall("delete", failure, id, DeleteLocalPostRaw(storage, failure, id))

NextRaw ==
    \/ \E failure \in StorageFailures : CallGetLocalPostsRaw(failure)
    \/ \E failure \in StorageFailures, id \in SampleIds : CallGetLocalPostRaw(failure, id)
    \/ \E failure \in StorageFailures, post \in RawSamplePosts : CallSaveLocalPostRaw(failure, post)
    \/ \E failure \in StorageFailures, id \in SampleIds : CallDeleteLocalPostRaw(failure, id)

SpecRaw == InitRaw /\ [][NextRaw]_vars

\* ------------------------------------------------------------------------
\* saveLocalPost and deleteLocalPost called from the callbacks of open tabs
\* ------------------------------------------------------------------------

\* How many callbacks are waiting to call saveLocalPost or deleteLocalPost.
MaxTasks == 2

\* The tabs that share the storage.
Tabs == { 1, 2 }

\* A callback that is due: its tab, the call it makes and the argument.
SaveTask(tab, post) ==
    [tab |-> tab, op |-> "save", post |-> Some(post), id |-> post.id,
     pc |-> "pending", posts |-> << >>]

DeleteTask(tab, id) ==
    [tab |-> tab, op |-> "delete", post |-> None, id |-> id,
     pc |-> "pending", posts |-> << >>]

TaskChoices ==
    { SaveTask(tab, post) : tab \in Tabs, post \in RawSamplePosts }
        \cup { DeleteTask(tab, id) : tab \in Tabs, id \in SampleIds }

\* A tab that lets a callback start while another one of its calls is
\* between its read and its write.
CanRunAnytime(k) == TRUE

\* A tab runs one callback at a time, each to completion: a call starts only
\* when no call of the same tab is between its read and its write. Tabs do
\* not wait for one another.
CanRun(k) ==
    \A j \in 1..Len(tasks) :
        (j # k /\ tasks[j].tab = tasks[k].tab) => tasks[j].pc # "read"

\* A write that applies the call to what the storage holds at that moment.
WriteBackCurrent(task, current) ==
    IF task.op = "save"
    THEN SaveLocalPostFn(current, task.post[1])
    ELSE DeleteLocalPostFn(current, task.id)

\* What the call writes: the collection it read, with its own change.
WriteBack(task, current) ==
    IF task.op = "save"
    THEN SaveLocalPostFn(task.posts, task.post[1])
    ELSE DeleteLocalPostFn(task.posts, task.id)

InitTabs ==
    /\ AppIdle
    /\ storage \in SeqsUpTo(RawSamplePosts, 1)
    /\ lastOp = [NoOp EXCEPT !.before = storage]
    /\ tasks \in [1..MaxTasks -> TaskChoices]
    /\ done = << >> /\ form = NoForm
    /\ qData = None /\ localPosts = << >> /\ rendered = Unmounted

\* const posts = getLocalPosts()
TaskRead(k) ==
    /\ tasks[k].pc = "pending"
    /\ CanRun(k)
    /\ tasks' = [tasks EXCEPT ![k].pc = "read", ![k].posts = storage]
    /\ UNCHANGED << appVars, storage, lastOp, done, form, qData, localPosts, rendered >>

\* localStorage.setItem(STORAGE_KEY, JSON.stringify(...))
TaskWrite(k) ==
    /\ tasks[k].pc = "read"
    /\ storage' = WriteBack(tasks[k], storage)
    /\ tasks' = [tasks EXCEPT ![k].pc = "done"]
    /\ done' = Append(done, k)
    /\ UNCHANGED << appVars, lastOp, form, qData, localPosts, rendered >>

NextTabs ==
    \/ \E k \in 1..Len(tasks) : TaskRead(k)
    \/ \E k \in 1..Len(tasks) : TaskWrite(k)

SpecTabs == InitTabs /\ [][NextTabs]_vars

\* ------------------------------------------------------------------------
\* The create form: fields, tag editing, validation and submission
\* ------------------------------------------------------------------------
\* A title or a body is modelled by its length, which is all the schema reads
\* of it; typed tag text is modelled by the word it holds and the number of
\* spaces around the word, so that trimming is a conversion that loses the
\* spaces.

\* The schema's upper limits on the title and on the body.
TitleMax == 100
BodyMax == 5000

Text(length) == [length |-> length]
TagText(pad, word) == [pad |-> pad, word |-> word]
EmptyTagText == TagText(0, "")

\* String.prototype.trim of typed tag text.
Trim(text) == text.word

\* What can be typed into the title, the body and the tag input, and what
\* the author control can hold: an identifier of the list, an identifier
\* outside the list, or nothing.
TitleTexts == { Text(0), Text(1), Text(TitleMax), Text(TitleMax + 1) }
BodyTexts == { Text(0), Text(1), Text(BodyMax), Text(BodyMax + 1) }
AuthorChoices == { "1", "2", "9", "" }
TagTexts == { EmptyTagText, TagText(1, ""), TagText(0, "x"), TagText(1, "x"),
              TagText(0, "y") }

\* useForm's defaultValues and the initial useState values.
FormDefaults ==
    [title |-> Text(0), body |-> Text(0), authorId |-> "1",
     tags |-> << >>, tagInput |-> EmptyTagText,
     errors |-> {}, isSubmitted |-> FALSE]

\* A schema that rejects nothing.
ValidateNothing(data) == {}

\* postSchema: the fields that fail.
Validate(data) ==
    { f \in { "title" } : data.title.length < 1 \/ data.title.length > TitleMax }
    \cup { f \in { "body" } : data.body.length < 1 \/ data.body.length > BodyMax }
    \cup { f \in { "authorId" } : data.authorId = "" }

\* react-hook-form re-validates a changed field once the form was submitted.
Revalidate(data, field) ==
    IF data.isSubmitted
    THEN [data EXCEPT !.errors = (@ \ { field }) \cup (Validate(data) \cap { field })]
    ELSE data

\* addTag: the tag list and tag input of the next render.
AddTag(data, tag) ==
    LET trimmedTag == Trim(tag) IN
    IF trimmedTag # "" /\ trimmedTag \notin Range(data.tags)
    THEN [data EXCEPT !.tags = Append(@, trimmedTag), !.tagInput = EmptyTagText]
    ELSE data

\* removeTag.
RemoveTagFn(data, tagToRemove) ==
    [data EXCEPT !.tags = SelectSeq(@, LAMBDA t : t # tagToRemove)]

\* onSubmit's argument of createMutation.mutate: the tag list is the one of
\* the render the handler was created in.
MutationInput(data) ==
    LET tagsArray == IF Len(data.tags) > 0 THEN data.tags ELSE << >> IN
    [title |-> data.title, body |-> data.body,
     tags |-> IF Len(tagsArray) > 0 THEN Some(tagsArray) ELSE None,
     authorId |-> data.authorId]

\* onSubmit's state updates: a tag still in the tag input is added.
OnSubmitState(data) ==
    IF Trim(data.tagInput) # "" THEN AddTag(data, data.tagInput) ELSE data

\* What the form's specification leaves alone.
formFrame ==
    << storage, server, nextServerId, now, page, postId, qStatus, qFetching,
       qData, localPosts, createResult, mutationError, showSuccessMessage,
       hcsPc, navPending, dStatus, dData, detailLocalPost, delPc, delLog,
       rendered, lastOp, createLog, tasks, done >>

InitForm ==
    /\ AppIdle /\ NoTasks
    /\ storage = << >> /\ lastOp = NoOp
    /\ qData = None /\ localPosts = << >> /\ rendered = Unmounted
    /\ form = FormDefaults

\* The controls are disabled while the mutation is pending.
Editable == createPc = "idle"

TypeTitle(text) ==
    /\ Editable
    /\ form' = Revalidate([form EXCEPT !.title = text], "title")
    /\ UNCHANGED << formFrame, createPc, createVars, attempts >>

TypeBody(text) ==
    /\ Editable
    /\ form' = Revalidate([form EXCEPT !.body = text], "body")
    /\ UNCHANGED << formFrame, createPc, createVars, attempts >>

SelectAuthor(id) ==
    /\ Editable
    /\ form' = Revalidate([form EXCEPT !.authorId = id], "authorId")
    /\ UNCHANGED << formFrame, createPc, createVars, attempts >>

TypeTagInput(text) ==
    /\ Editable
    /\ form' = [form EXCEPT !.tagInput = text]
    /\ UNCHANGED << formFrame, createPc, createVars, attempts >>

\* handleTagInputKeyDown on Enter or on a comma.
TagInputKeyDown ==
    /\ Editable
    /\ form' = IF Trim(form.tagInput) # "" THEN AddTag(form, form.tagInput) ELSE form
    /\ UNCHANGED << formFrame, createPc, createVars, attempts >>

ClickRemoveTag(tag) ==
    /\ Editable
    /\ tag \in Range(form.tags)
    /\ form' = RemoveTagFn(form, tag)
    /\ UNCHANGED << formFrame, createPc, createVars, attempts >>

\* handleSubmit(onSubmit): the resolver validates, and onSubmit runs only
\* when no field fails.
SubmitForm ==
    /\ Editable
    /\ LET errors == Validate(form) IN
       IF errors # {}
       THEN /\ form' = [form EXCEPT !.errors = errors, !.isSubmitted = TRUE]
            /\ UNCHANGED << createPc, createVars, attempts >>
       ELSE /\ form' = [OnSubmitState(form) EXCEPT !.errors = {}, !.isSubmitted = TRUE]
            /\ createVars' = Some(MutationInput(form))
            /\ createPc' = "inflight"
            /\ attempts' = [attempts EXCEPT !.create = @ + 1]
    /\ UNCHANGED formFrame

NextForm ==
    \/ \E text \in TitleTexts : TypeTitle(text)
    \/ \E text \in BodyTexts : TypeBody(text)
    \/ \E id \in AuthorChoices : SelectAuthor(id)
    \/ \E text \in TagTexts : TypeTagInput(text)
    \/ TagInputKeyDown
    \/ \E tag \in { "x", "y" } : ClickRemoveTag(tag)
    \/ SubmitForm

SpecForm == InitForm /\ [][NextForm]_vars

\* ------------------------------------------------------------------------
\* The application: one browser tab, the remote service and local storage
\* ------------------------------------------------------------------------

\* How many times the create form is submitted.
MaxCreates == 1

\* What the form submits once validation has passed: title, body, the tag
\* list (undefined when no tag was entered) and an author of the select box.
CreateInputs ==
    { [title |-> "A", body |-> "text", tags |-> None, authorId |-> "1"],
      [title |-> "B", body |-> "text", tags |-> Some(<< "t" >>), authorId |-> "2"],
      [title |-> "C", body |-> "text", tags |-> None, authorId |-> "9"] }

\* The errors a create request is rejected with: graphql-request throws Error
\* objects, a TypeError of the transport or a ClientError of the service.
FailedToFetch == [isError |-> TRUE, message |-> << "Failed", "to", "fetch" >>]

ValidationFailed ==
    [isError |-> TRUE, message |-> << "Validation", "failed:", "title", "required" >>]

CreateErrors ==
    { FailedToFetch,
      ValidationFailed,
      [isError |-> TRUE, message |-> << "Network", "request", "failed" >>],
      [isError |-> TRUE, message |-> << "Cannot", "fetch", "author" >>] }

\* The suffixes Math.random() contributes to a generated identifier.
RandomSuffixes == { 7 }

\* A post the remote service holds before the tab opens, and a post an earlier
\* offline session left in local storage.
SeedPost ==
    [ id |-> <<"", 1>>, title |-> "A", body |-> "text", tags |-> << >>,
      publishedAt |-> <<0, 0>>,
      author |-> [id |-> "1", name |-> "Takahashi", avatarUrl |-> None] ]

EarlierLocalPost ==
    [ id |-> <<LOCAL_PREFIX, 0, 7>>, title |-> "B", body |-> "text", tags |-> << >>,
      publishedAt |-> <<0, 0>>,
      author |-> [id |-> "2", name |-> "Sato", avatarUrl |-> None] ]

\* message.includes(words): the words occur in the message, adjacent and in order.
Includes(message, words) ==
    \E k \in 1..Len(message) :
        /\ k + Len(words) - 1 <= Len(message)
        /\ SubSeq(message, k, k + Len(words) - 1) = words

\* A classification that knows the exact message 'Failed to fetch' only.
IsExactlyFailedToFetch(error) ==
    error.isError /\ error.message = << "Failed", "to", "fetch" >>

\* A classification that takes every Error for a connectivity problem.
IsAnyError(error) == error.isError

\* The test both onError and the form's error display apply to the message.
IsConnectivityError(error) ==
    /\ error.isError
    /\ \/ Includes(error.message, << "Failed", "to", "fetch" >>)
       \/ Includes(error.message, << "fetch" >>)
       \/ Includes(error.message, << "Network" >>)

\* AUTHORS.find((a) => a.id === authorId)?.name || '不明'
AuthorName(authorId) ==
    IF \E i \in 1..Len(AUTHORS) : AUTHORS[i].id = authorId
    THEN AUTHORS[CHOOSE i \in 1..Len(AUTHORS) : AUTHORS[i].id = authorId].name
    ELSE "unknown"

\* A generator that leaves the prefix out.
GenerateBareId(time, random) == << "", time, random >>

\* generateLocalPostId(): `local_${Date.now()}_${random}`
GenerateLocalPostId(time, random) == << LOCAL_PREFIX, time, random >>

\* The post the remote service creates and returns.
CreatedPost(id, input, time) ==
    [ id |-> id, title |-> input.title, body |-> input.body,
      tags |-> IF input.tags = None THEN << >> ELSE input.tags[1],
      publishedAt |-> ToISOString(time),
      author |-> [id |-> input.authorId, name |-> AuthorName(input.authorId),
                  avatarUrl |-> None] ]

\* An onSuccess that mirrors nothing into local storage.
MirrorNothing(stored, created) == stored

\* onSuccess, up to its first await: the created post saved under its own id.
MirrorCreated(stored, created) ==
    SaveLocalPostFn(stored,
        [ id |-> created.id, title |-> created.title, body |-> created.body,
          tags |-> created.tags, publishedAt |-> created.publishedAt,
          author |-> [id |-> created.author.id, name |-> created.author.name,
                      avatarUrl |-> created.author.avatarUrl] ])

\* A fallback post that looks no author up.
FallbackPostAnonymous(input, time, random) ==
    [ id |-> GenerateLocalPostId(time, random),
      title |-> input.title, body |-> input.body,
      tags |-> IF input.tags = None THEN << >> ELSE input.tags[1],
      publishedAt |-> ToISOString(time),
      author |-> [id |-> input.authorId, name |-> "unknown", avatarUrl |-> None] ]

\* The LocalPost onError synthesizes from the mutation's variables.
FallbackPost(input, time, random) ==
    [ id |-> GenerateLocalPostId(time, random),
      title |-> input.title, body |-> input.body,
      tags |-> IF input.tags = None THEN << >> ELSE input.tags[1],
      publishedAt |-> ToISOString(time),
      author |-> [id |-> input.authorId, name |-> AuthorName(input.authorId),
                  avatarUrl |-> None] ]

\* An error display without the message test.
ErrorBannerForEveryError(pg, success, error) ==
    pg = "list" /\ ~success /\ error # None

\* The form's error display: rendered unless the success message replaces the
\* form, for an error the message test does not match.
ErrorBannerShown(pg, success, error) ==
    /\ pg = "list"
    /\ ~success
    /\ error # None
    /\ error[1].isError
    /\ ~Includes(error[1].message, << "Failed", "to", "fetch" >>)
    /\ ~Includes(error[1].message, << "fetch" >>)
    /\ ~Includes(error[1].message, << "Network" >>)

\* The success message that replaces the form.
SuccessMessageShown(pg, success) == pg = "list" /\ success

\* The listing the remote service answers a posts query with.
Listing(posts) == [ i \in 1..Len(posts) |-> ConvertLocalPost(posts[i]) ]

\* What PostDetail shows: data?.post, else the local copy, else nothing.
DetailPost(data, localCopy) == IF data # None THEN data ELSE localCopy

\* A detail view with a branch for the failed query.
DetailRenderWithError(pg, status, data, localCopy) ==
    IF pg # "detail" THEN "unmounted"
    ELSE IF status = "pending" THEN "loading"
    ELSE IF status = "error" THEN "error"
    ELSE IF DetailPost(data, localCopy) = None THEN "not found" ELSE "post"

\* PostDetail's render: the spinner while the query loads, the "post not
\* found" box when neither the query nor the local copy gives a post, else
\* the post. No branch renders the query's or the delete mutation's error.
DetailRender(pg, status, data, localCopy) ==
    IF pg # "detail" THEN "unmounted"
    ELSE IF status = "pending" THEN "loading"
    ELSE IF DetailPost(data, localCopy) = None THEN "not found" ELSE "post"

\* A failure handler that completes the operation for every id.
DeleteFailureAlwaysLeaves(stored, id) ==
    [storage |-> IF StartsWithLocal(id) THEN DeleteLocalPostFn(stored, id) ELSE stored,
     events  |-> IF StartsWithLocal(id) THEN << "local removed" >> ELSE << >>,
     leave   |-> TRUE]

\* A deletion handler that leaves local storage alone.
DeleteKeepsLocal(stored, id) ==
    [storage |-> stored, events |-> << >>, leave |-> TRUE]

\* A deletion handler that removes the local copy of every id.
DeleteAlwaysLocal(stored, id) ==
    [storage |-> DeleteLocalPostFn(stored, id),
     events  |-> << "local removed" >>, leave |-> TRUE]

\* deleteMutation.onSuccess: the local copy of a local_ id removed, the listing
\* invalidated, the route replaced by the list.
DeleteOnSuccess(stored, id) ==
    IF StartsWithLocal(id)
    THEN [storage |-> DeleteLocalPostFn(stored, id),
          events  |-> << "local removed" >>, leave |-> TRUE]
    ELSE [storage |-> stored, events |-> << >>, leave |-> TRUE]

\* deleteMutation.onError: for a local_ id as onSuccess; else the error is
\* logged and the detail page stays.
DeleteOnError(stored, id) ==
    IF StartsWithLocal(id)
    THEN [storage |-> DeleteLocalPostFn(stored, id),
          events  |-> << "local removed" >>, leave |-> TRUE]
    ELSE [storage |-> stored, events |-> << >>, leave |-> FALSE]

NoDelete == [id |-> None, before |-> << >>, events |-> << >>]

\* A timer callback that pushes the route before it calls onSuccess.
TimerNavigatesFirst(log) ==
    log \o << "timer fired", "navigation requested", "caller notified" >>

\* What a handler does up to its first await, in the order of its statements:
\* saveLocalPost, then invalidateQueries.
SaveThenInvalidate(log) == log \o << "persisted", "invalidate requested" >>

\* What a handler does once its awaits are over: setShowSuccessMessage(true),
\* then setTimeout(..., 2000).
ShowSuccessThenSetTimer(log) == log \o << "success shown", "timer set" >>

\* The timer's callback: onSuccess?.(), then router.push.
TimerCallback(log) ==
    log \o << "timer fired", "caller notified", "navigation requested" >>

\* A success handler that leaves the list's copy of local storage as it is.
KeepLocalPosts(current, stored) == current

\* handleCreateSuccess after its awaits: getLocalPosts(), setLocalPosts(posts).
RereadLocalPosts(current, stored) == stored

Render == rendered' = PostListRender(page', qStatus', qFetching', qData', localPosts')

createVarsAll == << createPc, createVars, createResult, mutationError, showSuccessMessage >>

detailVars == << postId, dStatus, dData, detailLocalPost, delPc, delLog >>

queryVars == << qStatus, qFetching, qData >>

serverVars == << server, nextServerId >>

\* The retry option left out: the library's default applies.
RetryUnset == "unset"

\* The retry option PostList passes to the posts query: retry: false.
PostsQueryRetry == "false"

\* The retry option PostDetail passes to the post query: retry: false.
PostQueryRetry == "false"

\* The create and delete mutations are given no retry option.
MutationRetry == "unset"

\* How many times the query library sends a failed request again: never when
\* retry is false; without the option, three times for a query and never
\* for a mutation.
Retries(kind, option) ==
    IF option = "false" THEN 0
    ELSE IF kind = "query" THEN 3
    ELSE 0

\* A request of the kind is sent for a new operation.
Sent(kind) == [attempts EXCEPT ![kind] = 1]

\* The failed request of the kind is sent again.
SentAgain(kind) == [attempts EXCEPT ![kind] = @ + 1]

Init ==
    /\ storage = << EarlierLocalPost >>
    /\ server = << SeedPost >>
    /\ nextServerId = 2
    /\ now = 1
    /\ page = "list" /\ postId = None
    /\ qStatus = "pending" /\ qFetching = TRUE /\ qData = None
    /\ localPosts = storage
    /\ createPc = "idle" /\ createVars = None /\ createResult = None
    /\ mutationError = None /\ showSuccessMessage = FALSE
    /\ hcsPc = "idle" /\ navPending = None
    /\ dStatus = "pending" /\ dData = None /\ detailLocalPost = None
    /\ delPc = "idle" /\ delLog = NoDelete
    /\ rendered = PostListRender(page, qStatus, qFetching, qData, localPosts)
    /\ lastOp = NoOp /\ NoTasks /\ form = NoForm
    /\ createLog = << >>
    /\ attempts = [list |-> 1, post |-> 0, create |-> 0, delete |-> 0]

\* A fetch of the listing starts: the status turns pending only without data.
StartFetch ==
    /\ qFetching' = TRUE
    /\ qStatus' = IF qData = None THEN "pending" ELSE qStatus
    /\ qData' = qData

\* PostList mounts: its effect reads local storage, a fresh PostForm is behind
\* the toggle, and the query fetches when it holds no data or `refetch` says so.
MountList(refetch) ==
    /\ page' = "list"
    /\ localPosts' = storage'
    /\ mutationError' = None /\ showSuccessMessage' = FALSE
    /\ postId' = None /\ dStatus' = "pending" /\ dData' = None /\ detailLocalPost' = None
    /\ IF qData = None \/ refetch THEN StartFetch ELSE UNCHANGED queryVars

\* PostDetail mounts: its query starts, its effect reads the local copy of a
\* local_ id.
MountDetail(id) ==
    /\ page' = "detail"
    /\ postId' = Some(id)
    /\ dStatus' = "pending" /\ dData' = None
    /\ detailLocalPost' = IF StartsWithLocal(id) THEN GetLocalPostFn(storage, id) ELSE None
    /\ delPc' = "idle" /\ delLog' = NoDelete

\* No callback of the tab is waiting and no navigation is under way.
Quiescent == createPc = "idle" /\ navPending = None /\ delPc = "idle"

\* The posts query settles with the service's listing.
FetchListOk ==
    /\ qFetching
    /\ qFetching' = FALSE /\ qStatus' = "success" /\ qData' = Some(Listing(server))
    /\ UNCHANGED << storage, serverVars, now, page, localPosts, createVarsAll, hcsPc,
                    navPending, detailVars, lastOp, restVars, createLog, attempts >>
    /\ Render

\* The posts query fails: retry is off, the error is stored, the data kept.
FetchListFail ==
    /\ qFetching
    /\ IF attempts.list <= Retries("query", PostsQueryRetry)
       THEN /\ attempts' = SentAgain("list")
            /\ UNCHANGED queryVars
       ELSE /\ qFetching' = FALSE /\ qStatus' = "error" /\ qData' = qData
            /\ attempts' = attempts
    /\ UNCHANGED << storage, serverVars, now, page, localPosts, createVarsAll, hcsPc,
                    navPending, detailVars, lastOp, restVars, createLog >>
    /\ Render

\* PostForm.onSubmit: createMutation.mutate with the form's input.
Submit(input) ==
    /\ page = "list" /\ Quiescent /\ ~showSuccessMessage
    /\ ~IsLoading(qStatus, qFetching)
    /\ now <= MaxCreates
    /\ now' = now + 1
    /\ createPc' = "inflight" /\ createVars' = Some(input) /\ createResult' = None
    /\ mutationError' = None
    /\ delLog' = NoDelete
    /\ UNCHANGED << storage, serverVars, page, queryVars, localPosts, showSuccessMessage,
                    hcsPc, navPending, postId, dStatus, dData, detailLocalPost, delPc,
                    lastOp, restVars >>
    /\ createLog' = << "requested" >>
    /\ attempts' = Sent("create")
    /\ Render

\* The create succeeds; onSuccess saves the mirror and awaits invalidateQueries.
CreateSucceeds ==
    /\ createPc = "inflight"
    /\ LET created == CreatedPost(<<"", nextServerId>>, createVars[1], now)
       IN  /\ server' = Append(server, created)
           /\ nextServerId' = nextServerId + 1
           /\ createResult' = [post |-> Some(created.id), error |-> None]
           /\ storage' = MirrorCreated(storage, created)
    /\ StartFetch
    /\ createPc' = "okAwaitInvalidate"
    /\ UNCHANGED << now, page, localPosts, createVars, mutationError,
                    showSuccessMessage, hcsPc, navPending, detailVars, lastOp, restVars >>
    /\ createLog' = SaveThenInvalidate(createLog \o << "remote ok" >>)
    /\ attempts' = Sent("list")
    /\ Render

\* onSuccess resumes after invalidateQueries and awaits refetchQueries.
CreateOkAfterInvalidate ==
    /\ createPc = "okAwaitInvalidate" /\ ~qFetching
    /\ StartFetch
    /\ createPc' = "okAwaitRefetch"
    /\ UNCHANGED << storage, serverVars, now, page, localPosts, createVars, createResult,
                    mutationError, showSuccessMessage, hcsPc, navPending, detailVars, lastOp, restVars >>
    /\ createLog' = createLog \o << "refetch requested" >>
    /\ attempts' = Sent("list")
    /\ Render

\* onSuccess resumes after refetchQueries: the success message, the 2 s timer.
CreateOkAfterRefetch ==
    /\ createPc = "okAwaitRefetch" /\ ~qFetching
    /\ showSuccessMessage' = TRUE
    /\ createPc' = "timer"
    /\ UNCHANGED << storage, serverVars, now, page, queryVars, localPosts, createVars,
                    createResult, mutationError, hcsPc, navPending, detailVars, lastOp, restVars, attempts >>
    /\ createLog' = ShowSuccessThenSetTimer(createLog)
    /\ Render

\* The create fails; onError either writes the fallback post and awaits
\* invalidateQueries, or logs the error, which then reaches the form.
CreateFails(error, random) ==
    /\ createPc = "inflight"
    /\ IF attempts.create <= Retries("mutation", MutationRetry)
       THEN /\ attempts' = SentAgain("create")
            /\ UNCHANGED << storage, createResult, queryVars, createPc, mutationError,
                            createLog >>
       ELSE IF IsConnectivityError(error)
       THEN LET localPost == FallbackPost(createVars[1], now, random)
            IN  /\ storage' = SaveLocalPostFn(storage, localPost)
                /\ createResult' = [post |-> Some(localPost.id), error |-> Some(error)]
                /\ StartFetch
                /\ attempts' = Sent("list")
                /\ createPc' = "fallbackAwaitInvalidate"
                /\ mutationError' = mutationError
                /\ createLog' = SaveThenInvalidate(createLog \o << "remote failed" >>)
       ELSE /\ storage' = storage
            /\ createResult' = [post |-> None, error |-> Some(error)]
            /\ UNCHANGED << queryVars, attempts >>
            /\ createPc' = "idle"
            /\ mutationError' = Some(error)
            /\ createLog' = createLog \o << "remote failed", "error logged" >>
    /\ UNCHANGED << serverVars, now, page, localPosts, createVars, showSuccessMessage,
                    hcsPc, navPending, detailVars, lastOp, restVars >>
    /\ Render

\* onError resumes after invalidateQueries: the success message, the 2 s
\* timer; the mutation then records its error.
CreateFallbackAfterInvalidate ==
    /\ createPc = "fallbackAwaitInvalidate" /\ ~qFetching
    /\ showSuccessMessage' = TRUE
    /\ mutationError' = createResult.error
    /\ createPc' = "timer"
    /\ UNCHANGED << storage, serverVars, now, page, queryVars, localPosts, createVars,
                    createResult, hcsPc, navPending, detailVars, lastOp, restVars, attempts >>
    /\ createLog' = ShowSuccessThenSetTimer(createLog)
    /\ Render

\* The timer fires: onSuccess?.() starts PostList.handleCreateSuccess, which
\* awaits invalidateQueries, and router.push asks for the new post's page.
TimerFires ==
    /\ createPc = "timer"
    /\ StartFetch
    /\ hcsPc' = "awaitInvalidate"
    /\ navPending' = createResult.post
    /\ createPc' = "idle" /\ createVars' = None /\ createResult' = None
    /\ UNCHANGED << storage, serverVars, now, page, localPosts,
                    mutationError, showSuccessMessage, detailVars, lastOp, restVars >>
    /\ createLog' = TimerCallback(createLog)
    /\ attempts' = Sent("list")
    /\ Render

\* handleCreateSuccess resumes after invalidateQueries and awaits refetch().
HcsAfterInvalidate ==
    /\ hcsPc \in { "awaitInvalidate", "unmountedAwaitInvalidate" } /\ ~qFetching
    /\ StartFetch
    /\ hcsPc' = IF hcsPc = "awaitInvalidate" THEN "awaitRefetch" ELSE "unmountedAwaitRefetch"
    /\ UNCHANGED << storage, serverVars, now, page, localPosts, createVarsAll,
                    navPending, detailVars, lastOp, restVars, createLog >>
    /\ attempts' = Sent("list")
    /\ Render

\* handleCreateSuccess resumes after refetch(): local storage is read again and
\* the form closed, when the PostList that started it is still mounted.
HcsAfterRefetch ==
    /\ hcsPc \in { "awaitRefetch", "unmountedAwaitRefetch" } /\ ~qFetching
    /\ hcsPc' = "idle"
    /\ IF hcsPc = "awaitRefetch"
       THEN /\ localPosts' = RereadLocalPosts(localPosts, storage)
            /\ showSuccessMessage' = FALSE /\ mutationError' = None
       ELSE UNCHANGED << localPosts, showSuccessMessage, mutationError >>
    /\ UNCHANGED << storage, serverVars, now, page, queryVars, createPc, createVars,
                    createResult, navPending, detailVars, lastOp, restVars, createLog, attempts >>
    /\ Render

\* The pushed route replaces the page: PostList unmounts, PostDetail mounts.
NavCompletes ==
    /\ navPending # None
    /\ MountDetail(navPending[1])
    /\ navPending' = None
    /\ hcsPc' = CASE hcsPc = "awaitInvalidate" -> "unmountedAwaitInvalidate"
                  [] hcsPc = "awaitRefetch"    -> "unmountedAwaitRefetch"
                  [] OTHER                     -> hcsPc
    /\ localPosts' = << >>
    /\ showSuccessMessage' = FALSE /\ mutationError' = None
    /\ UNCHANGED << storage, serverVars, now, queryVars, createPc, createVars,
                    createResult, lastOp, restVars >>
    /\ createLog' = createLog \o << "navigated" >>
    /\ attempts' = Sent("post")
    /\ Render

\* The user follows the link of a listed post.
OpenPost(id) ==
    /\ page = "list" /\ Quiescent
    /\ rendered.view = "posts" /\ id \in IdsOf(rendered.posts)
    /\ MountDetail(id)
    /\ hcsPc' = CASE hcsPc = "awaitInvalidate" -> "unmountedAwaitInvalidate"
                  [] hcsPc = "awaitRefetch"    -> "unmountedAwaitRefetch"
                  [] OTHER                     -> hcsPc
    /\ localPosts' = << >>
    /\ showSuccessMessage' = FALSE /\ mutationError' = None
    /\ UNCHANGED << storage, serverVars, now, queryVars, createPc, createVars,
                    createResult, navPending, lastOp, restVars, createLog >>
    /\ attempts' = Sent("post")
    /\ Render

\* The post query settles: the service's post of that id, or null.
FetchPostOk ==
    /\ page = "detail" /\ dStatus = "pending"
    /\ dStatus' = "success"
    /\ dData' = GetLocalPostFn(server, postId[1])
    /\ UNCHANGED << storage, serverVars, now, page, queryVars, localPosts, createVarsAll,
                    hcsPc, navPending, postId, detailLocalPost, delPc, delLog, lastOp, restVars, createLog, attempts >>
    /\ Render

\* The post query fails: retry is off.
FetchPostFail ==
    /\ page = "detail" /\ dStatus = "pending"
    /\ IF attempts.post <= Retries("query", PostQueryRetry)
       THEN /\ attempts' = SentAgain("post")
            /\ dStatus' = dStatus
       ELSE /\ dStatus' = "error"
            /\ attempts' = attempts
    /\ UNCHANGED << storage, serverVars, now, page, queryVars, localPosts, createVarsAll,
                    hcsPc, navPending, postId, dData, detailLocalPost, delPc, delLog, lastOp, restVars, createLog >>
    /\ Render

\* The confirm button of the delete dialog: deleteMutation.mutate({ id: postId }).
ClickDelete ==
    /\ page = "detail" /\ Quiescent
    /\ dStatus # "pending" /\ DetailPost(dData, detailLocalPost) # None
    /\ delPc' = "inflight"
    /\ delLog' = [id |-> postId, before |-> storage, events |-> << "remote requested" >>]
    /\ UNCHANGED << storage, serverVars, now, page, queryVars, localPosts, createVarsAll,
                    hcsPc, navPending, postId, dStatus, dData, detailLocalPost, lastOp, restVars, createLog >>
    /\ attempts' = Sent("delete")
    /\ Render

\* The delete request settles with `ok`; the handler runs, and where it
\* pushes '/', PostList mounts with its listing invalidated.
DeleteSettles(ok) ==
    /\ delPc = "inflight"
    /\ IF ~ok /\ attempts.delete <= Retries("mutation", MutationRetry)
       THEN /\ attempts' = SentAgain("delete")
            /\ UNCHANGED << server, storage, delLog, delPc, page, queryVars, localPosts,
                            mutationError, showSuccessMessage, postId, dStatus, dData,
                            detailLocalPost >>
       ELSE LET id  == postId[1]
                out == IF ok THEN DeleteOnSuccess(storage, id) ELSE DeleteOnError(storage, id)
            IN  /\ server' = IF ok THEN DeleteLocalPostFn(server, id) ELSE server
                /\ storage' = out.storage
                /\ delLog' = [delLog EXCEPT !.events =
                                 @ \o << IF ok THEN "remote ok" ELSE "remote failed" >>
                                   \o out.events
                                   \o IF out.leave THEN << "left" >> ELSE << >>]
                /\ delPc' = "idle"
                /\ IF out.leave
                   THEN MountList(TRUE) /\ attempts' = Sent("list")
                   ELSE UNCHANGED << page, queryVars, localPosts, mutationError,
                                     showSuccessMessage, postId, dStatus, dData,
                                     detailLocalPost, attempts >>
    /\ UNCHANGED << nextServerId, now, createPc, createVars, createResult, hcsPc,
                    navPending, lastOp, restVars, createLog >>
    /\ Render

\* The user returns to the list from the detail page.
BackToList(refetch) ==
    /\ page = "detail" /\ Quiescent
    /\ storage' = storage
    /\ MountList(refetch)
    /\ delLog' = NoDelete
    /\ UNCHANGED << serverVars, now, createPc, createVars, createResult, hcsPc,
                    navPending, delPc, lastOp, restVars, createLog >>
    /\ attempts' = IF qData = None \/ refetch THEN Sent("list") ELSE attempts
    /\ Render

Next ==
    \/ FetchListOk
    \/ FetchListFail
    \/ \E input \in CreateInputs : Submit(input)
    \/ CreateSucceeds
    \/ CreateOkAfterInvalidate
    \/ CreateOkAfterRefetch
    \/ \E error \in CreateErrors, random \in RandomSuffixes : CreateFails(error, random)
    \/ CreateFallbackAfterInvalidate
    \/ TimerFires
    \/ HcsAfterInvalidate
    \/ HcsAfterRefetch
    \/ NavCompletes
    \/ \E id \in IdsOf(rendered.posts) : OpenPost(id)
    \/ FetchPostOk
    \/ FetchPostFail
    \/ ClickDelete
    \/ \E ok \in BOOLEAN : DeleteSettles(ok)
    \/ \E refetch \in BOOLEAN : BackToList(refetch)

Spec == Init /\ [][Next]_vars

\* ------------------------------------------------------------------------
\* Properties
\* ------------------------------------------------------------------------

\* How often an identifier occurs in a sequence of posts.
Occurrences(posts, id) == Cardinality({ i \in 1..Len(posts) : posts[i].id = id })

\* The first entry of a sequence of posts that carries the identifier.
FirstWithId(posts, id) ==
    posts[CHOOSE i \in 1..Len(posts) :
            posts[i].id = id /\ \A j \in 1..(i - 1) : posts[j].id # id]

\* C1: for every remote collection R and local collection L, overlapping
\* identifiers included, the merged list PostList renders holds each
\* identifier of R and of L exactly once and nothing else, and an identifier
\* present in both is shown with the remote entry's title, publishedAt and
\* author name.
C1_MergeDedupRemoteWins ==
    rendered.view # "unmounted" =>
        LET R   == ServerPosts(qData)
            out == rendered.posts
        IN  /\ \A id \in IdsOf(R) \cup IdsOf(localPosts) : Occurrences(out, id) = 1
            /\ IdsOf(out) = IdsOf(R) \cup IdsOf(localPosts)
            /\ \A id \in IdsOf(R) \cap IdsOf(localPosts) :
                   LET shown  == FirstWithId(out, id)
                       remote == FirstWithId(R, id)
                   IN  /\ shown.title = remote.title
                       /\ shown.publishedAt = remote.publishedAt
                       /\ shown.author.name = remote.author.name

\* C1's case: a rendered list where an identifier is in both collections and
\* the local entry's title and timestamp differ from the remote one's.
C1_Witness ==
    /\ rendered.view = "posts"
    /\ \E i \in 1..Len(ServerPosts(qData)), j \in 1..Len(localPosts) :
           /\ ServerPosts(qData)[i].id = localPosts[j].id
           /\ ServerPosts(qData)[i].title # localPosts[j].title
           /\ ServerPosts(qData)[i].publishedAt # localPosts[j].publishedAt

\* Where an identifier first stands in the concatenation R ++ L.
PlaceInConcatenation(id) ==
    LET all == ServerPosts(qData) \o localPosts
    IN  CHOOSE i \in 1..Len(all) :
            all[i].id = id /\ \A j \in 1..(i - 1) : all[j].id # id

\* The scenario: remote [id 1, "A", January], local [id 1 with another
\* title, local_999 "B" June].
ScenarioRemote == << SummaryPost(<<"", 1>>, [title |-> "A", publishedAt |-> <<1, 0>>, name |-> "Takahashi"]) >>

ScenarioLocal ==
    << FullPost(<<"", 1>>, [title |-> "B", publishedAt |-> <<2, 1>>, name |-> "Sato"]),
       FullPost(<<LOCAL_PREFIX, 999>>, [title |-> "B", publishedAt |-> <<6, 0>>, name |-> "Sato"]) >>

\* C2: with well-formed timestamps the merged list is ordered by publication
\* instant, most recent first; two entries of one instant keep the order they
\* had in the concatenation R ++ L; and the scenario above yields
\* [local_999 (B), 1 (A)].
C2_SortedDescStable ==
    rendered.view # "unmounted" =>
        LET out == rendered.posts
        IN  /\ \A i, j \in 1..Len(out) :
                   i < j => GetTime(out[i].publishedAt) >= GetTime(out[j].publishedAt)
            /\ \A i, j \in 1..Len(out) :
                   (i < j /\ GetTime(out[i].publishedAt) = GetTime(out[j].publishedAt))
                       => PlaceInConcatenation(out[i].id) < PlaceInConcatenation(out[j].id)
            /\ (qData = Some(ScenarioRemote) /\ localPosts = ScenarioLocal)
                   => /\ [i \in 1..Len(out) |-> out[i].id] = << <<LOCAL_PREFIX, 999>>, <<"", 1>> >>
                      /\ [i \in 1..Len(out) |-> out[i].title] = << "B", "A" >>

\* C2's case: a rendered list with a remote and a local entry of one instant,
\* written as two different timestamp strings, below a more recent entry.
C2_Witness ==
    /\ rendered.view = "posts"
    /\ Len(rendered.posts) = 3
    /\ GetTime(rendered.posts[1].publishedAt) > GetTime(rendered.posts[2].publishedAt)
    /\ GetTime(rendered.posts[2].publishedAt) = GetTime(rendered.posts[3].publishedAt)
    /\ rendered.posts[2].publishedAt # rendered.posts[3].publishedAt
    /\ rendered.posts[2].id \in IdsOf(ServerPosts(qData))
    /\ rendered.posts[3].id \notin IdsOf(ServerPosts(qData))

\* C7: saveLocalPost with an identifier already stored replaces the first
\* entry carrying it, at its position, leaves the size and every other entry
\* as they were, and saving the same post again changes nothing.
C7_SaveIsUpsert ==
    (lastOp.op = "save" /\ lastOp.id \in IdsOf(lastOp.before)) =>
        LET before == lastOp.before
            post   == lastOp.post[1]
        IN  /\ Len(storage) = Len(before)
            /\ \E i \in 1..Len(before) :
                   /\ before[i].id = post.id
                   /\ \A j \in 1..(i - 1) : before[j].id # post.id
                   /\ storage[i] = post
                   /\ \A j \in 1..Len(before) : j # i => storage[j] = before[j]
            /\ SaveLocalPostFn(storage, post) = storage

\* C7's case: a save that replaced a stored entry by a different post of the
\* same identifier, in a collection holding another entry as well.
C7_Witness ==
    /\ lastOp.op = "save"
    /\ lastOp.id \in IdsOf(lastOp.before)
    /\ lastOp.post[1] \notin Range(lastOp.before)
    /\ Len(lastOp.before) >= 2

\* The identifiers the remote service assigned to this tab's creates.
MirroredIds == { <<"", n>> : n \in 2..(nextServerId - 1) }

\* The listing query has failed and no request is in flight.
ListFetchFailed == page = "list" /\ qStatus = "error" /\ ~qFetching

\* C3: when the posts request fails or yields no result the list view takes
\* the remote collection for empty: the merged list is exactly the local
\* collection, deduplicated and sorted, and no error state is rendered.
C3_FailedFetchTreatedAsEmpty ==
    ListFetchFailed =>
        /\ rendered.view \in { "posts", "no posts" }
        /\ rendered.posts = MergedPosts(None, localPosts)

\* A message with one of the words the connectivity test looks for.
HasConnectivityWord(message) ==
    \E k \in 1..Len(message) : message[k] \in { "fetch", "Network" }

\* The step on which a create request is rejected with `error`.
CreateRejected(error) ==
    /\ createPc = "inflight" /\ createPc' # "inflight"
    /\ createResult'.error = Some(error)

\* C4: a create rejected with exactly 'Failed to fetch', or with any message
\* classified as a connectivity problem, appends exactly one LocalPost to
\* local storage, under a generated identifier that starts with local_ and
\* was not stored before; the form then shows the success message and never
\* the error.
C4_FallbackPersistsAndReportsSuccess ==
    /\ [][ \A error \in CreateErrors :
             (CreateRejected(error) /\ HasConnectivityWord(error.message)) =>
                 /\ Len(storage') = Len(storage) + 1
                 /\ SubSeq(storage', 1, Len(storage)) = storage
                 /\ StartsWithLocal(storage'[Len(storage')].id)
                 /\ storage'[Len(storage')].id = GenerateLocalPostId(now, storage'[Len(storage')].id[3])
                 /\ storage'[Len(storage')].id \notin IdsOf(storage)
                 /\ storage'[Len(storage')].title = createVars[1].title
                 /\ ~ErrorBannerShown(page', showSuccessMessage', mutationError') ]_vars
    /\ [](createPc = "fallbackAwaitInvalidate"
             => ~ErrorBannerShown(page, showSuccessMessage, mutationError))
    /\ []((createPc = "timer" /\ createResult.error # None)
             => /\ SuccessMessageShown(page, showSuccessMessage)
                /\ ~ErrorBannerShown(page, showSuccessMessage, mutationError)
                /\ createResult.post[1] \in IdsOf(storage))

\* C4's case: a create rejected with 'Failed to fetch' has been answered by
\* the fallback and the success message is up.
C4_Witness ==
    /\ createPc = "timer"
    /\ createResult.error = Some(FailedToFetch)
    /\ StartsWithLocal(createResult.post[1])
    /\ createResult.post[1] \in IdsOf(storage)
    /\ showSuccessMessage

\* C5: a create rejected with an error that is not connectivity-related
\* leaves local storage as it was and shows that error in the form; so every
\* rejected create ends in a fallback post or in a visible error.
C5_OtherErrorsShownNothingPersisted ==
    /\ [][ \A error \in CreateErrors :
             (CreateRejected(error) /\ ~HasConnectivityWord(error.message)) =>
                 /\ storage' = storage
                 /\ mutationError' = Some(error)
                 /\ ErrorBannerShown(page', showSuccessMessage', mutationError') ]_vars
    /\ [][ \A error \in CreateErrors :
             CreateRejected(error) =>
                 \/ /\ storage' = storage
                    /\ ErrorBannerShown(page', showSuccessMessage', mutationError')
                 \/ /\ Len(storage') = Len(storage) + 1
                    /\ StartsWithLocal(storage'[Len(storage')].id) ]_vars

\* C5's case: 'Validation failed: title required' is on display and nothing
\* was written.
C5_Witness ==
    /\ createPc = "idle"
    /\ mutationError = Some(ValidationFailed)
    /\ ErrorBannerShown(page, showSuccessMessage, mutationError)
    /\ storage = << EarlierLocalPost >>

\* C6 as stated: once a create has succeeded remotely, in every later state
\* where fetching the listing has failed the created post is in the merged
\* list.
C6_MirroredPostAlwaysListedOnOutage ==
    ListFetchFailed => MirroredIds \subseteq IdsOf(rendered.posts)

\* C6, amended: a post created remotely is saved in local storage under the
\* identifier the service gave it and stays there; in every later state
\* where the list view is past loading and its local collection equals local
\* storage (it reads storage on mount and in its create-success callback),
\* the post is in the merged list, whatever the listing request did.
C6_MirrorSurvivesOutage ==
    /\ MirroredIds \subseteq IdsOf(storage)
    /\ \A id \in MirroredIds \cap IdsOf(server) :
           FirstWithId(storage, id) = FirstWithId(server, id)
    /\ (page = "list" /\ ~IsLoading(qStatus, qFetching) /\ localPosts = storage)
           => MirroredIds \subseteq IdsOf(rendered.posts)

\* C6's case: the listing request has failed, the cache holds no listing
\* with the created post, and the post is listed from its local copy.
C6_Witness ==
    /\ ListFetchFailed
    /\ MirroredIds # { }
    /\ \A id \in MirroredIds :
           /\ id \notin IdsOf(ServerPosts(qData))
           /\ id \in IdsOf(rendered.posts)

\* The delete request of the log has settled.
DeleteSettled ==
    \E k \in 1..Len(delLog.events) : delLog.events[k] \in { "remote ok", "remote failed" }

\* C8: once the delete operation on an identifier with the local_ prefix has
\* completed, local storage no longer holds that identifier, whether the
\* remote deletion succeeded or failed.
C8_LocalIdRemovedAfterDelete ==
    (delLog.id # None /\ DeleteSettled /\ StartsWithLocal(delLog.id[1]))
        => delLog.id[1] \notin IdsOf(storage)

\* C8's case: a stored local_ post whose remote deletion failed.
C8_Witness ==
    /\ delLog.id # None
    /\ StartsWithLocal(delLog.id[1])
    /\ delLog.id[1] \in IdsOf(delLog.before)
    /\ Len(delLog.events) >= 2
    /\ delLog.events[2] = "remote failed"

\* C9: a delete operation on an identifier without the local_ prefix leaves
\* the stored collection as it was when the deletion was requested, while
\* the request is pending and after it has succeeded or failed.
C9_OtherIdLeavesStorage ==
    (delLog.id # None /\ ~StartsWithLocal(delLog.id[1]))
        => storage = delLog.before

\* C9's case: the remote deletion of a post succeeded while local storage
\* holds a copy under the same identifier.
C9_Witness ==
    /\ delLog.id # None
    /\ ~StartsWithLocal(delLog.id[1])
    /\ delLog.id[1] \in IdsOf(delLog.before)
    /\ Len(delLog.events) >= 2
    /\ delLog.events[2] = "remote ok"

\* C10 as stated: for an identifier with the local_ prefix the local-storage
\* removal has happened by the time the remote deletion is requested, and
\* the remote deletion is requested for every identifier.
C10_LocalRemovalBeforeRemoteRequest ==
    /\ (delPc = "inflight" /\ StartsWithLocal(postId[1]))
           => postId[1] \notin IdsOf(storage)
    /\ delLog.events # << >> => delLog.events[1] = "remote requested"

\* C10, amended: the delete operation requests the remote deletion first, for
\* every identifier; local storage is untouched while that request is
\* pending; for an identifier with the local_ prefix the local-storage removal
\* follows once the request has settled, on success and on failure; for any
\* other identifier there is no local removal.
C10_RemoteRequestThenLocalRemoval ==
    /\ delPc = "inflight" =>
           /\ delLog.id = postId
           /\ delLog.events = << "remote requested" >>
           /\ storage = delLog.before
    /\ delLog.events # << >> =>
           /\ delLog.events[1] = "remote requested"
           /\ \A k \in 1..Len(delLog.events) : delLog.events[k] = "local removed" => k = 3
           /\ (DeleteSettled /\ StartsWithLocal(delLog.id[1]))
                  => /\ delLog.events[3] = "local removed"
                     /\ storage = DeleteLocalPostFn(delLog.before, delLog.id[1])
           /\ (DeleteSettled /\ ~StartsWithLocal(delLog.id[1]))
                  => \A k \in 1..Len(delLog.events) : delLog.events[k] # "local removed"

\* C10's case: the remote deletion of a stored local_ post succeeded and the
\* local copy went after it.
C10_Witness ==
    /\ delLog.id # None
    /\ StartsWithLocal(delLog.id[1])
    /\ delLog.id[1] \in IdsOf(delLog.before)
    /\ delLog.events = << "remote requested", "remote ok", "local removed", "left" >>

\* The step on which the delete request is answered with a failure and
\* onError runs.
DeleteFailedStep ==
    /\ delPc = "inflight" /\ delPc' = "idle"
    /\ delLog'.events[2] = "remote failed"

\* What PostDetail shows in this state.
DetailView == DetailRender(page, dStatus, dData, detailLocalPost)

\* C11 as stated: when the remote deletion fails, for every identifier the
\* operation completes all the same: the listing is invalidated and the view
\* leaves for the list page.
C11_FailedDeleteAlwaysCompletes ==
    [][ DeleteFailedStep => (page' = "list" /\ qFetching') ]_vars

\* C11, amended: when the remote deletion fails for an identifier with the
\* local_ prefix, the listing is invalidated and the view leaves for the list
\* page; for any other identifier the view stays on the detail page with the
\* post as it was, the listing query and local storage untouched; in neither
\* case does a view show the failure.
C11_FailedDeleteCompletesForLocalIdsOnly ==
    /\ [][ DeleteFailedStep =>
             IF StartsWithLocal(postId[1])
             THEN /\ page' = "list" /\ qFetching'
                  /\ rendered'.view \in { "loading", "posts", "no posts" }
                  /\ delLog'.events[Len(delLog'.events)] = "left"
             ELSE /\ page' = "detail" /\ postId' = postId
                  /\ UNCHANGED << qStatus, qFetching, qData, storage >>
                  /\ DetailView' = DetailView
                  /\ DetailView' = "post"
                  /\ delLog'.events = << "remote requested", "remote failed" >> ]_vars
    /\ [](DetailView \in { "unmounted", "loading", "not found", "post" })

\* C11's case: the deletion of a post of the remote service failed and the
\* detail page is still up.
C11_Witness ==
    /\ delLog.id # None
    /\ ~StartsWithLocal(delLog.id[1])
    /\ delLog.events = << "remote requested", "remote failed" >>
    /\ page = "detail" /\ DetailView = "post"

\* The stored item is one a call has to cope with: the key is missing, or
\* the string is empty, does not parse, or parses to something that is not
\* an array of posts.
BadItem(item) == ~IsArrayOfPosts(item)

\* C12: getLocalPosts, saveLocalPost, deleteLocalPost and getLocalPost never
\* throw; whenever the stored item is missing, unparseable or not an array of
\* posts, or the storage fails, get-all yields the empty collection and
\* get-one yields null; a save or delete that meets a failing storage, or a
\* stored value that is not an array of posts, leaves the item as it was.
C12_StorageNeverThrows ==
    lastOp.op # "none" =>
        /\ ~lastOp.threw
        /\ (lastOp.op = "getAll" /\ (BadItem(lastOp.before) \/ lastOp.failure = "denied"))
               => lastOp.value = JsArray(<< >>)
        /\ (lastOp.op = "getOne" /\ (BadItem(lastOp.before) \/ lastOp.failure = "denied"))
               => lastOp.value = JsNull
        /\ (lastOp.op \in { "save", "delete" } /\ lastOp.failure # "none")
               => storage = lastOp.before

\* What of C12 the functions do keep: get-all, save and delete never throw;
\* a failing storage, a missing key, an empty or unparseable string give the
\* empty collection and null; a save or delete under a failing storage, or
\* one whose array method throws, changes nothing; and get-one throws only
\* on a stored value that parses but is not an array of posts.
C12_WhatHolds ==
    lastOp.op # "none" =>
        /\ lastOp.op # "getOne" => ~lastOp.threw
        /\ lastOp.threw =>
               /\ lastOp.before.kind = "json" /\ ~IsArrayOfPosts(lastOp.before)
               /\ lastOp.failure # "denied"
        /\ (lastOp.failure = "denied" \/ lastOp.before.kind # "json") =>
               /\ lastOp.op = "getAll" => lastOp.value = JsArray(<< >>)
               /\ lastOp.op = "getOne" => lastOp.value = JsNull
        /\ (lastOp.op \in { "save", "delete" } /\ lastOp.failure # "none")
               => storage = lastOp.before
        /\ (lastOp.op = "delete" /\ lastOp.before.kind = "json"
                /\ ~IsArrayOfPosts(lastOp.before))
               => storage = lastOp.before

\* C12's case: getLocalPost threw on a stored 'null'.
C12_Witness ==
    /\ lastOp.op = "getOne" /\ lastOp.threw
    /\ lastOp.before = ItemJson(JsNull)
    /\ lastOp.failure = "none"

\* The form's error display, were the form on screen with this error.
BannerWouldShow(error) == ErrorBannerShown("list", FALSE, Some(error))

\* C13: for every error a create is rejected with, onError takes the
\* fallback-write branch exactly when the form's message test suppresses the
\* error display; an error with a connectivity word is never on display, and
\* an error on display is one the fallback did not handle.
C13_BannerIffNoFallback ==
    /\ [][ \A error \in CreateErrors :
             CreateRejected(error) =>
                 ( (createPc' = "fallbackAwaitInvalidate" /\ storage' # storage)
                       <=> ~BannerWouldShow(error) ) ]_vars
    /\ []( (mutationError # None /\ HasConnectivityWord(mutationError[1].message))
               => ~ErrorBannerShown(page, showSuccessMessage, mutationError) )
    /\ []( ErrorBannerShown(page, showSuccessMessage, mutationError)
               => /\ createResult # None
                  /\ createResult.post = None
                  /\ createResult.error = mutationError
                  /\ ~HasConnectivityWord(mutationError[1].message) )

\* C13's case: 'Network request failed' has become the mutation's error
\* after the fallback wrote its post, and the form shows no error.
C13_Witness ==
    /\ mutationError # None
    /\ mutationError[1].message = << "Network", "request", "failed" >>
    /\ createResult # None /\ createResult.post # None
    /\ createResult.post[1] \in IdsOf(storage)
    /\ ~ErrorBannerShown(page, showSuccessMessage, mutationError)

\* Where an event first stands in the create operation's log; 0 when absent.
At(event) ==
    LET hits == { k \in 1..Len(createLog) : createLog[k] = event }
    IN  IF hits = { } THEN 0 ELSE CHOOSE k \in hits : \A l \in hits : k <= l

\* Both events are logged, the first before the second.
Before(first, second) == 0 < At(first) /\ At(first) < At(second)

\* C14: on a create that succeeds remotely or through the fallback, the
\* post is persisted to local storage, then the listing is invalidated, then
\* the caller's onSuccess is called, and navigation to the new post's page
\* is requested after that, from the callback of the 2-second timer set
\* once the success message is up; no step comes before an earlier one.
C14_SideEffectOrder ==
    /\ At("invalidate requested") > 0 => Before("persisted", "invalidate requested")
    /\ At("success shown") > 0 => Before("invalidate requested", "success shown")
    /\ At("timer set") > 0 => Before("success shown", "timer set")
    /\ At("timer fired") > 0 => Before("timer set", "timer fired")
    /\ At("caller notified") > 0 =>
           /\ Before("invalidate requested", "caller notified")
           /\ Before("timer fired", "caller notified")
    /\ At("navigation requested") > 0 =>
           /\ Before("persisted", "navigation requested")
           /\ Before("invalidate requested", "navigation requested")
           /\ Before("caller notified", "navigation requested")
           /\ Before("timer fired", "navigation requested")
    /\ At("navigated") > 0 => Before("navigation requested", "navigated")
    /\ At("error logged") > 0 =>
           \A k \in 1..Len(createLog) :
               createLog[k] \notin { "persisted", "caller notified", "navigation requested" }
    /\ createPc \in { "okAwaitInvalidate", "okAwaitRefetch", "fallbackAwaitInvalidate", "timer" } =>
           /\ createResult.post[1] \in IdsOf(storage)
           /\ At("persisted") > 0 /\ At("navigation requested") = 0
           /\ navPending = None
    /\ navPending # None =>
           /\ navPending[1] \in IdsOf(storage)
           /\ At("navigation requested") > 0 /\ At("navigated") = 0
           /\ page = "list"

\* C14's case: a create answered by the fallback has gone through every
\* step and the new post's page is up.
C14_Witness ==
    /\ createLog = << "requested", "remote failed", "persisted", "invalidate requested",
                      "success shown", "timer set", "timer fired", "caller notified",
                      "navigation requested", "navigated" >>
    /\ page = "detail" /\ StartsWithLocal(postId[1])

C15_WitnessAfterError ==
    /\ page = "list"
    /\ qData = None /\ qStatus = "error" /\ localPosts = << >>
    /\ rendered.view = "no posts"

C16_WitnessNullResult ==
    /\ page = "detail" /\ dStatus = "success" /\ dData = None
    /\ postId[1] \notin IdsOf(storage)
    /\ DetailView = "not found"

\* The step on which the posts query, the post query, the create or the
\* delete ends in failure.
ListFailedStep == qFetching /\ ~qFetching' /\ qStatus' = "error"

PostFailedStep == dStatus = "pending" /\ dStatus' = "error"

CreateFailedStep ==
    createPc = "inflight" /\ createPc' \in { "fallbackAwaitInvalidate", "idle" }

\* C17: fetching the listing, fetching one post, creating and deleting each
\* send a single request: no operation has ever sent more than one, and the
\* step on which an operation fails, its failure handler running, comes
\* after exactly one request.
C17_SingleAttempt ==
    /\ [](\A kind \in { "list", "post", "create", "delete" } : attempts[kind] <= 1)
    /\ [][ /\ ListFailedStep => (attempts.list = 1 /\ attempts'.list = 1)
           /\ PostFailedStep => (attempts.post = 1 /\ attempts'.post = 1)
           /\ CreateFailedStep => (attempts.create = 1 /\ attempts'.create = 1)
           /\ DeleteFailedStep => (attempts.delete = 1 /\ attempts'.delete = 1) ]_vars
    /\ [](qFetching => attempts.list = 1)
    /\ []((page = "detail" /\ dStatus = "pending") => attempts.post = 1)
    /\ [](createPc = "inflight" => attempts.create = 1)
    /\ [](delPc = "inflight" => attempts.delete = 1)

\* C17's case: the posts query has failed after its one request and no
\* request is in flight.
C17_Witness ==
    /\ qStatus = "error" /\ ~qFetching
    /\ attempts.list = 1

\* The stored collection after the calls of `order` have run one after the
\* other, each on what the one before it left.
RECURSIVE ApplyInOrder(_, _)
ApplyInOrder(stored, order) ==
    IF order = << >> THEN stored
    ELSE LET task == tasks[order[Len(order)]]
             prev == ApplyInOrder(stored, SubSeq(order, 1, Len(order) - 1))
         IN  IF task.op = "save"
             THEN SaveLocalPostFn(prev, task.post[1])
             ELSE DeleteLocalPostFn(prev, task.id)

\* Every callback belongs to one and the same tab.
SingleTab == \A j, k \in 1..Len(tasks) : tasks[j].tab = tasks[k].tab

\* C18: in a single tab, whatever the order in which the callbacks come due,
\* no saveLocalPost or deleteLocalPost is interrupted between its read and
\* its write, and the stored collection is the one that results from the
\* completed calls applied one after the other: no update is lost.
C18_SingleTabNoLostUpdate ==
    SingleTab =>
        /\ Cardinality({ k \in 1..Len(tasks) : tasks[k].pc = "read" }) <= 1
        /\ \A k \in 1..Len(tasks) : tasks[k].pc = "read" => tasks[k].posts = storage
        /\ storage = ApplyInOrder(lastOp.before, done)
        /\ done # << >> =>
               LET last == tasks[done[Len(done)]]
               IN  IF last.op = "save"
                   THEN last.post[1] \in Range(storage)
                   ELSE last.id \notin IdsOf(storage)

\* C18's case: one tab has saved two posts of different identifiers, one
\* after the other, and both are stored.
C18_Witness ==
    /\ SingleTab
    /\ Len(done) >= 2
    /\ tasks[done[1]].op = "save" /\ tasks[done[2]].op = "save"
    /\ tasks[done[1]].id # tasks[done[2]].id
    /\ tasks[done[1]].id \notin IdsOf(lastOp.before)
    /\ tasks[done[2]].id \notin IdsOf(lastOp.before)
    /\ { tasks[done[1]].id, tasks[done[2]].id } \subseteq IdsOf(storage)

\* Two saves of different tabs, of two new identifiers, that both read the
\* collection as it was before either wrote, and of which j wrote first.
RacingSaves(j, k) ==
    /\ Len(done) >= 2 /\ done[1] = j /\ done[2] = k
    /\ tasks[j].tab # tasks[k].tab
    /\ tasks[j].op = "save" /\ tasks[k].op = "save"
    /\ tasks[j].id # tasks[k].id
    /\ tasks[j].id \notin IdsOf(lastOp.before)
    /\ tasks[k].id \notin IdsOf(lastOp.before)
    /\ tasks[j].posts = lastOp.before /\ tasks[k].posts = lastOp.before

\* C19: when two tabs run saveLocalPost on the collection both have read,
\* each with a different post, the second write replaces the first: once
\* both have written, the stored collection is what was read plus the last
\* writer's post, and the first writer's post is gone.
C19_LastWriterWins ==
    \A j, k \in 1..Len(tasks) :
        (RacingSaves(j, k) /\ Len(done) = 2) =>
            /\ storage = Append(lastOp.before, tasks[k].post[1])
            /\ tasks[j].id \notin IdsOf(storage)

\* C19's case: the lost update has happened.
C19_Witness ==
    \E j, k \in 1..Len(tasks) :
        /\ RacingSaves(j, k) /\ Len(done) = 2
        /\ tasks[j].id \notin IdsOf(storage)
        /\ tasks[k].id \in IdsOf(storage)

\* C20: as the remote service assigns no identifier with the local_ prefix,
\* in every state no post of the service, of the fetched listing or of a
\* fetched detail carries that prefix; a listed post that carries it comes
\* from the local collection; and every identifier the fallback wrote
\* starts with local_, is stored locally and is unknown to the service.
C20_Provenance ==
    /\ \A id \in IdsOf(server) : ~StartsWithLocal(id)
    /\ \A id \in IdsOf(ServerPosts(qData)) : ~StartsWithLocal(id)
    /\ dData # None => ~StartsWithLocal(dData[1].id)
    /\ \A id \in IdsOf(rendered.posts) :
           StartsWithLocal(id) => id \in IdsOf(localPosts)
    /\ \A id \in IdsOf(storage) :
           \/ StartsWithLocal(id)
           \/ id \in MirroredIds
    /\ (createResult # None /\ createResult.error # None /\ createResult.post # None) =>
           /\ StartsWithLocal(createResult.post[1])
           /\ createResult.post[1] \in IdsOf(storage)
           /\ createResult.post[1] \notin IdsOf(server)
    /\ (navPending # None /\ navPending[1] \notin MirroredIds) =>
           StartsWithLocal(navPending[1])

\* C20's case: the page of a post the fallback wrote is up, the post is in
\* local storage, and the service has answered that it holds no such post.
C20_Witness ==
    /\ page = "detail"
    /\ StartsWithLocal(postId[1]) /\ postId[1] # EarlierLocalPost.id
    /\ postId[1] \in IdsOf(storage)
    /\ postId[1] \notin IdsOf(server)
    /\ dStatus = "success" /\ dData = None

\* The input breaks a rule of the form: a title of 1 to 100 characters, a
\* body of 1 to 5000 characters, an author identifier that is not empty.
BreaksFormRules(title, body, authorId) ==
    \/ title.length = 0 \/ title.length >= 101
    \/ body.length = 0 \/ body.length >= 5001
    \/ authorId = ""

\* C21: the create form sends a create request only for input that passes
\* validation; while the fields hold invalid input no step sends a request
\* and no step changes local storage.
C21_OnlyValidInputIsSent ==
    /\ [](createVars # None =>
            ~BreaksFormRules(createVars[1].title, createVars[1].body,
                             createVars[1].authorId))
    /\ [][BreaksFormRules(form.title, form.body, form.authorId) =>
            /\ createVars' = None /\ createPc' = "idle"
            /\ attempts'.create = 0
            /\ storage' = storage]_vars

\* A submission of a title one character too long was rejected: the title
\* is flagged, nothing was sent, local storage is as it was.
C21_Witness ==
    /\ form.isSubmitted /\ form.errors = { "title" }
    /\ form.title.length = 101 /\ form.body.length = 5000
    /\ createVars = None /\ attempts.create = 0 /\ storage = << >>

\* C24: on submit, a non-empty tag still in the tag input is among the tags
\* sent with that create request.
C24_PendingTagIsSent ==
    [][(createPc = "idle" /\ createPc' = "inflight" /\ Trim(form.tagInput) # "") =>
         /\ createVars'[1].tags # None
         /\ Trim(form.tagInput) \in Range(createVars'[1].tags[1])]_vars

\* A submission with "x" still in the tag input and no committed tag: the
\* tag list of the next render holds "x", the request carries no tags.
C24_Witness ==
    /\ createPc = "inflight"
    /\ form.tags = << "x" >> /\ form.tagInput = EmptyTagText
    /\ createVars[1].tags = None

\* No identifier is carried by two entries of a stored collection.
NoDuplicateIds(posts) ==
    \A i, j \in 1..Len(posts) : posts[i].id = posts[j].id => i = j

\* C27: a saveLocalPost or deleteLocalPost call on a collection that holds
\* every identifier at most once leaves a collection that holds every
\* identifier at most once; so from the empty or any duplicate-free
\* collection every sequence of such calls keeps identifiers unique.
C27_IdsStayUnique ==
    (lastOp.op \in { "save", "delete" } /\ NoDuplicateIds(lastOp.before)) =>
        NoDuplicateIds(storage)

\* A post was saved under an identifier that a duplicate-free collection of
\* two entries already held, with different content.
C27_Witness ==
    /\ lastOp.op = "save"
    /\ Len(lastOp.before) = 2 /\ NoDuplicateIds(lastOp.before)
    /\ lastOp.id \in IdsOf(lastOp.before)
    /\ lastOp.post[1] \notin Range(lastOp.before)
    /\ lastOp.post[1] \in Range(storage)

\* The positions of a collection whose entry carries another identifier.
KeptPositions(posts, id) == { i \in 1..Len(posts) : posts[i].id # id }

\* The k-th smallest member of a set of positions.
KthPosition(positions, k) ==
    CHOOSE i \in positions : Cardinality({ j \in positions : j <= i }) = k

\* C29: deleteLocalPost(id) removes every stored entry with that identifier
\* and leaves all other entries unchanged in their original relative order;
\* when the identifier is absent the collection is unchanged.
C29_DeleteRemovesOnlyThatId ==
    lastOp.op = "delete" =>
        LET before == lastOp.before
            keep   == KeptPositions(before, lastOp.id)
        IN  /\ lastOp.id \notin IdsOf(storage)
            /\ Len(storage) = Cardinality(keep)
            /\ \A k \in 1..Len(storage) : storage[k] = before[KthPosition(keep, k)]
            /\ (lastOp.id \notin IdsOf(before) => storage = before)

\* An identifier stored twice next to another entry was deleted: both of
\* its entries are gone and the other entry is what remains.
C29_Witness ==
    /\ lastOp.op = "delete"
    /\ Len(lastOp.before) = 3
    /\ Occurrences(lastOp.before, lastOp.id) = 2
    /\ Len(storage) = 1 /\ storage[1] \in Range(lastOp.before)

C26_LocalCopyInsteadOfNotFound ==
    /\ (page = "detail" /\ dData # None) =>
           DetailView = "post" /\ DetailPost(dData, detailLocalPost) = dData
    /\ (page = "detail" /\ dStatus # "pending" /\ dData = None
            /\ postId[1] \in IdsOf(storage))
           => DetailView = "post"

\* The post query failed for a post that a successful create mirrored into
\* local storage under its remote identifier: the view shows not-found.
C26_Witness ==
    /\ page = "detail" /\ dStatus = "error"
    /\ postId[1] \in MirroredIds /\ postId[1] \in IdsOf(storage)
    /\ DetailView = "not found"

\* The remote deletion of a post that this tab created remotely has
\* succeeded, and the list page has since fetched the listing anew.
DeletedAndRefetched ==
    /\ page = "list" /\ qStatus = "success" /\ ~qFetching
    /\ delLog.id # None /\ delLog.id[1] \in MirroredIds
    /\ Len(delLog.events) >= 2 /\ delLog.events[2] = "remote ok"

\* C28: after a post created through this client with a successful remote
\* create is deleted with a successful remote deletion, the post is not in
\* the merged listing the list page renders.
C28_DeletedPostLeavesListing ==
    DeletedAndRefetched => delLog.id[1] \notin IdsOf(rendered.posts)

\* The remote service no longer holds the deleted post and the listing was
\* fetched anew, yet the page lists the post from its local-storage mirror.
C28_Witness ==
    /\ DeletedAndRefetched
    /\ delLog.id[1] \notin IdsOf(server)
    /\ delLog.id[1] \notin IdsOf(qData[1])
    /\ delLog.id[1] \in IdsOf(storage)
    /\ delLog.id[1] \in IdsOf(rendered.posts)

\* The step on which a create request is rejected for good with a
\* connectivity error and onError stores the fallback post.
FallbackStep == createPc = "inflight" /\ createPc' = "fallbackAwaitInvalidate"

\* The display name the form's author list gives to an author identifier
\* of the submitted inputs.
ListedName(authorId) ==
    CASE authorId = "1" -> "Takahashi"
      [] authorId = "2" -> "Sato"
      [] OTHER -> "unknown"

\* C23: the fallback post written to local storage carries the submitted
\* title and body, the submitted tags (none when no tags were sent), the
\* submitted author identifier with the display name of the form's author
\* list (the "unknown" name when the identifier is not in the list), no
\* avatar, and the time of the failure as its publication timestamp.
C23_FallbackPostFields ==
    [][FallbackStep =>
         LET input == createVars[1]
             post  == FirstWithId(storage', createResult'.post[1])
         IN  /\ post.title = input.title /\ post.body = input.body
             /\ post.tags = (IF input.tags = None THEN << >> ELSE input.tags[1])
             /\ post.author.id = input.authorId
             /\ post.author.name = ListedName(input.authorId)
             /\ post.author.avatarUrl = None
             /\ post.publishedAt = <<now, 0>>
             /\ StartsWithLocal(post.id)]_vars

\* A create without tags by an author outside the list fell back: the stored
\* post has no tags and the "unknown" name.
C23_Witness ==
    /\ createPc = "fallbackAwaitInvalidate"
    /\ createVars[1].authorId = "9" /\ createVars[1].tags = None
    /\ LET post == FirstWithId(storage, createResult.post[1])
       IN  /\ StartsWithLocal(post.id)
           /\ post.tags = << >> /\ post.author.name = "unknown"
           /\ post.title = "C"

\* The identifiers a create of this tab has persisted into local storage.
NewlyPersistedIds == IdsOf(storage) \ { EarlierLocalPost.id }

\* A create has stored its post, the form has called the list's success
\* callback and that callback has finished; the list page is (again or
\* still) the page shown.
CreateCallbackDone ==
    page = "list" /\ hcsPc = "idle" /\ At("caller notified") > 0

\* C25: after a create has completed, remotely or through the fallback, and
\* the form's success callback has run, the list component holds what local
\* storage holds, and the merged listing it renders contains the newly
\* persisted post, also when the remote refetch failed.
C25_NewPostListedAfterCallback ==
    CreateCallbackDone =>
        /\ localPosts = storage
        /\ ~IsLoading(qStatus, qFetching) =>
               NewlyPersistedIds \subseteq IdsOf(rendered.posts)

\* The fallback stored a post, the callback's refetch failed, and the list
\* page, not yet replaced by the new post's page, lists the post.
C25_Witness ==
    /\ CreateCallbackDone /\ navPending # None
    /\ qStatus = "error" /\ ~qFetching
    /\ StartsWithLocal(navPending[1])
    /\ navPending[1] \in NewlyPersistedIds
    /\ navPending[1] \in IdsOf(rendered.posts)

====
